---- MODULE Spec2Model ----
(***************************************************************************)
(* A model of the MemoireVault contract (contracts/Memoire.sol): the      *)
(* time-locked vault registry with its per-owner id lists and per-vault    *)
(* permission mapping and list.                                            *)
(*                                                                         *)
(* Every external function of the contract is one action.  A call whose    *)
(* require fails reverts: the transaction leaves the storage and the event *)
(* log as they were.                                                       *)
(*                                                                         *)
(* The uint values are modelled as unbounded integers: the compiler        *)
(* (^0.8.0) checks the arithmetic, and neither vaultCounter++ nor          *)
(* block.timestamp + MAX_UNLOCK_PERIOD comes near 2^256 here.              *)
(*                                                                         *)
(* `created`, `everRetrieved`, `calls` and `everOpen` are history          *)
(* variables: the contract does not hold them, they record what has        *)
(* happened so that properties over whole runs can be stated.  Spec is the *)
(* contract alone; SpecLog is the contract with a listener that follows    *)
(* the first MaxLog events.                                                *)
(***************************************************************************)
EXTENDS Integers, Sequences, FiniteSets, TLC

(***************************************************************************)
(* Bounds of the model.                                                    *)
(***************************************************************************)
\* the number of vaults that are created
MaxVaults == 2
\* block.timestamp runs from 1 to MaxNow
MaxNow == 3
\* unlock times passed to the calls lie up to MaxDelta after block.timestamp
MaxDelta == 2
\* a listener follows the event log for its first MaxLog events
MaxLog == 4

(***************************************************************************)
(* Constants and value sets.                                               *)
(***************************************************************************)
\* uint constant MAX_UNLOCK_PERIOD = 3650 days;
MAX_UNLOCK_PERIOD == 3650 * 86400

\* address(0), the default value of an address in storage
ZeroAddress == 0

\* uint private vaultCounter = 1000;
InitialCounter == 1000

\* the accounts that send transactions (msg.sender is never address(0))
Users == {1, 2}

\* every address a call can pass as an argument
Addresses == {ZeroAddress} \cup Users

\* the content identifiers passed to createVault; "" is the empty string
Cids == {"", "Qm1", "Qm2"}

\* the vault ids the calls refer to; InitialCounter itself is never assigned
VaultIds == InitialCounter .. (InitialCounter + MaxVaults)

VARIABLES
    vaults,         \* mapping(uint => Vault) private vaults
    userVaults,     \* mapping(address => uint[]) private userVaults
    vaultCounter,   \* uint private vaultCounter
    blockTimestamp, \* block.timestamp
    subscribed,     \* whether an external listener follows the event log
                    \* (the histories calls and everOpen are kept for it)
    log,            \* the events the listener has received, in order
    calls,          \* history: the calls that returned normally, in order,
                    \* kept while the log is followed
    created,        \* history: the cid each id was created with ("" = never)
    everRetrieved,  \* history: the ids on which a retrieveVault succeeded
    everOpen        \* history: the ids whose entry has been unlockable
                    \* (live with block.timestamp >= unlockTime), kept
                    \* while the log is followed

vars == <<vaults, userVaults, vaultCounter, blockTimestamp, subscribed, log,
          calls, created, everRetrieved, everOpen>>

storage == <<vaults, userVaults, vaultCounter>>

(***************************************************************************)
(* struct Vault.  `permitted` is the set of addresses whose flag in the    *)
(* mapping(address => bool) is true.                                       *)
(***************************************************************************)
Vault ==
    [owner |-> ZeroAddress, cid |-> "", unlockTime |-> 0, retrieved |-> FALSE,
     permitted |-> {}, permittedWallets |-> <<>>]

Range(s) == {s[i] : i \in 1..Len(s)}

(***************************************************************************)
(* The events.                                                             *)
(***************************************************************************)
Event(kind, vaultId, who, cid, time) ==
    [kind |-> kind, vaultId |-> vaultId, who |-> who, cid |-> cid, time |-> time]

VaultCreated(vaultId, owner, cid, unlockTime) ==
    Event("VaultCreated", vaultId, owner, cid, unlockTime)
VaultRetrieved(vaultId, retriever, cid) ==
    Event("VaultRetrieved", vaultId, retriever, cid, 0)
WalletPermitted(vaultId, wallet) ==
    Event("WalletPermitted", vaultId, wallet, "", 0)
WalletRevoked(vaultId, wallet) ==
    Event("WalletRevoked", vaultId, wallet, "", 0)
UnlockTimeExtended(vaultId, newUnlockTime) ==
    Event("UnlockTimeExtended", vaultId, ZeroAddress, "", newUnlockTime)
VaultDestroyed(vaultId) ==
    Event("VaultDestroyed", vaultId, ZeroAddress, "", 0)

\* a faulty emit: the statement is missing, nothing reaches the log
EmitDropped(event) == log' = log

\* emit: the event is appended to the log, which a subscribed listener reads
Emit(event) == log' = IF subscribed THEN Append(log, event) ELSE log

\* the call returns normally (history)
Returned(op, sender, vaultId) ==
    calls' = IF subscribed
             THEN Append(calls, [op |-> op, sender |-> sender, vaultId |-> vaultId])
             ELSE calls

\* a failed require: the transaction reverts, nothing is written or emitted
Revert == UNCHANGED vars

(***************************************************************************)
(* modifier onlyOwner(uint vaultId)                                        *)
(***************************************************************************)
\* a faulty modifier: a permitted wallet passes as well
onlyOwnerOrPermitted(sender, vaultId) ==
    sender = vaults[vaultId].owner \/ sender \in vaults[vaultId].permitted

onlyOwner(sender, vaultId) == sender = vaults[vaultId].owner

(***************************************************************************)
(* The loops of revokeWallet and destroyVault: the first element equal to  *)
(* x is overwritten by the last element and the array is popped; an array  *)
(* without x is left as it is.                                             *)
(***************************************************************************)
\* a faulty removal: the array is popped without moving the last element
\* over the removed one
SwapRemovePopOnly(s, x) ==
    IF x \notin Range(s) THEN s ELSE SubSeq(s, 1, Len(s) - 1)

SwapRemove(s, x) ==
    IF x \notin Range(s) THEN s
    ELSE LET i == CHOOSE j \in 1..Len(s) :
                     /\ s[j] = x
                     /\ \A k \in 1..(j - 1) : s[k] # x
         IN  SubSeq([s EXCEPT ![i] = s[Len(s)]], 1, Len(s) - 1)

(***************************************************************************)
(* delete vaults[vaultId]: every member is reset to its default value,     *)
(* except the mapping, which delete does not touch.                        *)
(***************************************************************************)
DeleteVault(v) == [Vault EXCEPT !.permitted = v.permitted]

(***************************************************************************)
(* function createVault(string calldata cid, uint unlockTime)              *)
(*                                                                         *)
(* For every function, <name>Status is what the caller observes: "ok", or  *)
(* the message of the first require that fails, in the order of the code.  *)
(***************************************************************************)
\* faulty checks: the horizon itself is refused
createVaultStatusHorizonExclusive(sender, cid, unlockTime) ==
    IF ~(cid # "") THEN "CID cannot be empty"
    ELSE IF ~(unlockTime > blockTimestamp)
    THEN "Unlock time must be in the future"
    ELSE IF ~(unlockTime < blockTimestamp + MAX_UNLOCK_PERIOD)
    THEN "Unlock time too far in future"
    ELSE "ok"

createVaultStatus(sender, cid, unlockTime) ==
    IF ~(cid # "") THEN "CID cannot be empty"
    ELSE IF ~(unlockTime > blockTimestamp)
    THEN "Unlock time must be in the future"
    ELSE IF ~(unlockTime <= blockTimestamp + MAX_UNLOCK_PERIOD)
    THEN "Unlock time too far in future"
    ELSE "ok"

\* a faulty allocation: the counter is used without being incremented
NextVaultIdStale == vaultCounter

\* vaultCounter++
NextVaultId == vaultCounter + 1

\* a faulty createVault: the counter is incremented before the checks and
\* a failed check returns without reverting
createVaultEarlyIncrement(sender, cid, unlockTime) ==
    IF createVaultStatus(sender, cid, unlockTime) # "ok"
    THEN /\ vaultCounter' = vaultCounter + 1
         /\ UNCHANGED <<vaults, userVaults, blockTimestamp, subscribed, log,
                        calls, created, everRetrieved, everOpen>>
    ELSE LET id == vaultCounter + 1 IN
         /\ vaultCounter' = id
         /\ vaults' = [vaults EXCEPT ![id] =
                          [@ EXCEPT !.owner = sender, !.cid = cid,
                                    !.unlockTime = unlockTime,
                                    !.retrieved = FALSE]]
         /\ userVaults' = [userVaults EXCEPT ![sender] = Append(@, id)]
         /\ Emit(VaultCreated(id, sender, cid, unlockTime))
         /\ Returned("createVault", sender, id)
         /\ created' = [created EXCEPT ![id] = cid]
         /\ UNCHANGED <<blockTimestamp, subscribed, everRetrieved, everOpen>>

createVault(sender, cid, unlockTime) ==
    IF createVaultStatus(sender, cid, unlockTime) # "ok" THEN Revert
    ELSE LET id == NextVaultId IN
         /\ vaultCounter' = id
         /\ vaults' = [vaults EXCEPT ![id] =
                          [@ EXCEPT !.owner = sender, !.cid = cid,
                                    !.unlockTime = unlockTime,
                                    !.retrieved = FALSE]]
         /\ userVaults' = [userVaults EXCEPT ![sender] = Append(@, id)]
         /\ Emit(VaultCreated(id, sender, cid, unlockTime))
         /\ Returned("createVault", sender, id)
         /\ created' = [created EXCEPT ![id] = cid]
         /\ UNCHANGED <<blockTimestamp, subscribed, everRetrieved, everOpen>>

(***************************************************************************)
(* function retrieveVault(uint vaultId) returns (string memory)            *)
(***************************************************************************)
\* a faulty time check: > in place of >=
retrieveVaultStatusStrict(sender, vaultId) ==
    LET v == vaults[vaultId] IN
    IF ~(sender = v.owner \/ sender \in v.permitted) THEN "Access denied"
    ELSE IF ~(blockTimestamp > v.unlockTime) THEN "Vault still locked"
    ELSE IF ~(~v.retrieved) THEN "Vault already retrieved"
    ELSE "ok"

\* faulty order: the retrieved flag is checked first
retrieveVaultStatusRetrievedFirst(sender, vaultId) ==
    LET v == vaults[vaultId] IN
    IF ~(~v.retrieved) THEN "Vault already retrieved"
    ELSE IF ~(sender = v.owner \/ sender \in v.permitted) THEN "Access denied"
    ELSE IF ~(blockTimestamp >= v.unlockTime) THEN "Vault still locked"
    ELSE "ok"

retrieveVaultStatus(sender, vaultId) ==
    LET v == vaults[vaultId] IN
    IF ~(sender = v.owner \/ sender \in v.permitted) THEN "Access denied"
    ELSE IF ~(blockTimestamp >= v.unlockTime) THEN "Vault still locked"
    ELSE IF ~(~v.retrieved) THEN "Vault already retrieved"
    ELSE "ok"

\* return v.cid;
retrieveVaultReturn(vaultId) == vaults[vaultId].cid

retrieveVault(sender, vaultId) ==
    IF retrieveVaultStatus(sender, vaultId) # "ok" THEN Revert
    ELSE /\ vaults' = [vaults EXCEPT ![vaultId].retrieved = TRUE]
         /\ Emit(VaultRetrieved(vaultId, sender, vaults[vaultId].cid))
         /\ Returned("retrieveVault", sender, vaultId)
         /\ everRetrieved' = everRetrieved \cup {vaultId}
         /\ UNCHANGED <<userVaults, vaultCounter, blockTimestamp, subscribed,
                        created, everOpen>>

(***************************************************************************)
(* function permitWallet(uint vaultId, address wallet) onlyOwner(vaultId)  *)
(***************************************************************************)
\* faulty checks: the require on the permitted flag is missing
permitWalletStatusNoFlagCheck(sender, vaultId, wallet) ==
    IF ~onlyOwner(sender, vaultId) THEN "Only owner can execute"
    ELSE IF ~(wallet # ZeroAddress) THEN "Invalid address"
    ELSE "ok"

permitWalletStatus(sender, vaultId, wallet) ==
    IF ~onlyOwner(sender, vaultId) THEN "Only owner can execute"
    ELSE IF ~(wallet # ZeroAddress) THEN "Invalid address"
    ELSE IF ~(wallet \notin vaults[vaultId].permitted)
    THEN "Wallet already permitted"
    ELSE "ok"

\* the writes of permitWallet to the entry v
permitWalletEffect(v, wallet) ==
    [v EXCEPT !.permitted = @ \cup {wallet},
              !.permittedWallets = Append(@, wallet)]

permitWallet(sender, vaultId, wallet) ==
    IF permitWalletStatus(sender, vaultId, wallet) # "ok" THEN Revert
    ELSE /\ vaults' = [vaults EXCEPT ![vaultId] = permitWalletEffect(@, wallet)]
         /\ Emit(WalletPermitted(vaultId, wallet))
         /\ Returned("permitWallet", sender, vaultId)
         /\ UNCHANGED <<userVaults, vaultCounter, blockTimestamp, subscribed,
                        created, everRetrieved, everOpen>>

(***************************************************************************)
(* function revokeWallet(uint vaultId, address wallet) onlyOwner(vaultId)  *)
(***************************************************************************)
revokeWalletStatus(sender, vaultId, wallet) ==
    IF ~onlyOwner(sender, vaultId) THEN "Only owner can execute"
    ELSE IF ~(wallet \in vaults[vaultId].permitted) THEN "Wallet not permitted"
    ELSE "ok"

\* faulty writes: the flag is cleared and the array is left as it is
revokeWalletEffectFlagOnly(v, wallet) ==
    [v EXCEPT !.permitted = @ \ {wallet}]

\* the writes of revokeWallet to the entry v
revokeWalletEffect(v, wallet) ==
    [v EXCEPT !.permitted = @ \ {wallet},
              !.permittedWallets = SwapRemove(@, wallet)]

revokeWallet(sender, vaultId, wallet) ==
    IF revokeWalletStatus(sender, vaultId, wallet) # "ok" THEN Revert
    ELSE /\ vaults' = [vaults EXCEPT ![vaultId] = revokeWalletEffect(@, wallet)]
         /\ Emit(WalletRevoked(vaultId, wallet))
         /\ Returned("revokeWallet", sender, vaultId)
         /\ UNCHANGED <<userVaults, vaultCounter, blockTimestamp, subscribed,
                        created, everRetrieved, everOpen>>

(***************************************************************************)
(* function extendUnlockTime(uint vaultId, uint newUnlockTime)             *)
(*     onlyOwner(vaultId)                                                  *)
(***************************************************************************)
\* a faulty extension: the require on the current unlock time is missing
extendUnlockTimeStatusNoLater(sender, vaultId, newUnlockTime) ==
    IF ~onlyOwner(sender, vaultId) THEN "Only owner can execute"
    ELSE IF ~(newUnlockTime > blockTimestamp)
    THEN "Unlock time must be in the future"
    ELSE IF ~(newUnlockTime <= blockTimestamp + MAX_UNLOCK_PERIOD)
    THEN "Unlock time too far in future"
    ELSE "ok"

extendUnlockTimeStatus(sender, vaultId, newUnlockTime) ==
    IF ~onlyOwner(sender, vaultId) THEN "Only owner can execute"
    ELSE IF ~(newUnlockTime > blockTimestamp)
    THEN "Unlock time must be in the future"
    ELSE IF ~(newUnlockTime <= blockTimestamp + MAX_UNLOCK_PERIOD)
    THEN "Unlock time too far in future"
    ELSE IF ~(newUnlockTime > vaults[vaultId].unlockTime)
    THEN "New unlock time must be later"
    ELSE "ok"

extendUnlockTime(sender, vaultId, newUnlockTime) ==
    IF extendUnlockTimeStatus(sender, vaultId, newUnlockTime) # "ok" THEN Revert
    ELSE /\ vaults' = [vaults EXCEPT ![vaultId].unlockTime = newUnlockTime]
         /\ Emit(UnlockTimeExtended(vaultId, newUnlockTime))
         /\ Returned("extendUnlockTime", sender, vaultId)
         /\ UNCHANGED <<userVaults, vaultCounter, blockTimestamp, subscribed,
                        created, everRetrieved, everOpen>>

(***************************************************************************)
(* function destroyVault(uint vaultId) onlyOwner(vaultId)                  *)
(***************************************************************************)
destroyVaultStatus(sender, vaultId) ==
    IF ~onlyOwner(sender, vaultId) THEN "Only owner can execute"
    ELSE IF ~(blockTimestamp < vaults[vaultId].unlockTime)
    THEN "Cannot destroy unlocked vault"
    ELSE "ok"

\* a faulty destroyVault: the sender's whole array is deleted
destroyVaultClearsList(sender, vaultId) ==
    IF destroyVaultStatus(sender, vaultId) # "ok" THEN Revert
    ELSE /\ userVaults' = [userVaults EXCEPT ![sender] = <<>>]
         /\ vaults' = [vaults EXCEPT ![vaultId] = DeleteVault(@)]
         /\ Emit(VaultDestroyed(vaultId))
         /\ Returned("destroyVault", sender, vaultId)
         /\ UNCHANGED <<vaultCounter, blockTimestamp, subscribed, created,
                        everRetrieved, everOpen>>

destroyVault(sender, vaultId) ==
    IF destroyVaultStatus(sender, vaultId) # "ok" THEN Revert
    ELSE /\ userVaults' = [userVaults EXCEPT
                              ![sender] = SwapRemove(@, vaultId)]
         /\ vaults' = [vaults EXCEPT ![vaultId] = DeleteVault(@)]
         /\ Emit(VaultDestroyed(vaultId))
         /\ Returned("destroyVault", sender, vaultId)
         /\ UNCHANGED <<vaultCounter, blockTimestamp, subscribed, created,
                        everRetrieved, everOpen>>

(***************************************************************************)
(* The view functions.                                                     *)
(***************************************************************************)
getVaultIds(user) == userVaults[user]

\* a faulty comparison: the vault is not open at its unlock time
isVaultOpenStrict(vaultId) == blockTimestamp > vaults[vaultId].unlockTime

isVaultOpen(vaultId) == blockTimestamp >= vaults[vaultId].unlockTime

getVaultStatus(vaultId) ==
    [isOpen |-> blockTimestamp >= vaults[vaultId].unlockTime,
     unlockTime |-> vaults[vaultId].unlockTime]

getPermittedWallets(vaultId) == vaults[vaultId].permittedWallets

(***************************************************************************)
(* The environment: the transactions sent to the contract and the passage  *)
(* of block time.                                                          *)
(***************************************************************************)
\* the unlock times passed to createVault and extendUnlockTime
UnlockTimes ==
    {blockTimestamp + d : d \in 0..MaxDelta}
        \cup {blockTimestamp + MAX_UNLOCK_PERIOD,
              blockTimestamp + MAX_UNLOCK_PERIOD + 1}

\* the listener is still following the log
Following == Len(log) < MaxLog /\ Len(calls) < MaxLog

CreateVaultCall ==
    /\ vaultCounter < InitialCounter + MaxVaults
    /\ Following
    /\ \E sender \in Users, cid \in Cids, unlockTime \in UnlockTimes :
           createVault(sender, cid, unlockTime)

RetrieveVaultCall ==
    /\ Following
    /\ \E sender \in Users, vaultId \in VaultIds : retrieveVault(sender, vaultId)

PermitWalletCall ==
    /\ Following
    /\ \E sender \in Users, vaultId \in VaultIds, wallet \in Addresses :
           permitWallet(sender, vaultId, wallet)

RevokeWalletCall ==
    /\ Following
    /\ \E sender \in Users, vaultId \in VaultIds, wallet \in Addresses :
           revokeWallet(sender, vaultId, wallet)

ExtendUnlockTimeCall ==
    /\ Following
    /\ \E sender \in Users, vaultId \in VaultIds, newUnlockTime \in UnlockTimes :
           extendUnlockTime(sender, vaultId, newUnlockTime)

DestroyVaultCall ==
    /\ Following
    /\ \E sender \in Users, vaultId \in VaultIds : destroyVault(sender, vaultId)

\* a later block: block.timestamp only moves forward
AdvanceTime ==
    /\ blockTimestamp < MaxNow
    /\ blockTimestamp' = blockTimestamp + 1
    /\ everOpen' = IF subscribed
                   THEN everOpen \cup
                            {id \in VaultIds :
                                 /\ vaults[id].owner # ZeroAddress
                                 /\ blockTimestamp' >= vaults[id].unlockTime}
                   ELSE everOpen
    /\ UNCHANGED <<storage, subscribed, log, calls, created, everRetrieved>>

Deployed ==
    /\ vaults = [id \in VaultIds |-> Vault]
    /\ userVaults = [a \in Addresses |-> <<>>]
    /\ vaultCounter = InitialCounter
    /\ blockTimestamp = 1
    /\ log = <<>>
    /\ calls = <<>>
    /\ created = [id \in VaultIds |-> ""]
    /\ everRetrieved = {}
    /\ everOpen = {}

\* the contract after construction, its events not followed
Init == Deployed /\ subscribed = FALSE

Next ==
    \/ CreateVaultCall
    \/ RetrieveVaultCall
    \/ PermitWalletCall
    \/ RevokeWalletCall
    \/ ExtendUnlockTimeCall
    \/ DestroyVaultCall
    \/ AdvanceTime

Spec == Init /\ [][Next]_vars

\* the contract after construction, a listener following its events
InitLog == Deployed /\ subscribed = TRUE

SpecLog == InitLog /\ [][Next]_vars

(***************************************************************************)
(* Notions the properties below are stated with.                           *)
(***************************************************************************)
\* the entry exists: it was created and has not been destroyed
Live(id) == vaults[id].owner # ZeroAddress

\* a createVault has yielded this id
Issued(id) == created[id] # ""

\* the entry was created and then destroyed
Destroyed(id) == Issued(id) /\ ~Live(id)

\* some state-changing call that refers to id, sent by sender
CallOn(sender, id) ==
    \/ retrieveVault(sender, id)
    \/ destroyVault(sender, id)
    \/ \E wallet \in Addresses : permitWallet(sender, id, wallet)
    \/ \E wallet \in Addresses : revokeWallet(sender, id, wallet)
    \/ \E t \in UnlockTimes : extendUnlockTime(sender, id, t)

(***************************************************************************)
(* C1.  After a successful destroyVault, every later state-changing call   *)
(* that refers to the same id (retrieve, permit, revoke, extend, destroy)  *)
(* fails and changes nothing, whoever sends it and whenever.               *)
(* Refuted by the code: delete leaves the permitted mapping in place, so   *)
(* a wallet permitted before the destruction passes every require of       *)
(* retrieveVault on the zeroed entry.                                      *)
(***************************************************************************)
C1_DestroyedIdRejectsEveryCall ==
    [][\A id \in VaultIds, sender \in Users :
          (Destroyed(id) /\ CallOn(sender, id)) => UNCHANGED vars]_vars

(***************************************************************************)
(* C2.  Invariant I3: an entry whose retrieved flag is true keeps it true  *)
(* in every later state and is never destroyed.                            *)
(* Refuted by the code: extendUnlockTime does not look at the flag, so the *)
(* owner can lock a retrieved vault again and then destroy it.             *)
(***************************************************************************)
C2_RetrievedIsPermanent ==
    [][\A id \in VaultIds :
          (Live(id) /\ vaults[id].retrieved)
              => (Live(id)' /\ vaults'[id].retrieved)]_vars

(***************************************************************************)
(* C3.  At most one retrieveVault succeeds on an id: a retrieve that       *)
(* succeeds is the first one to succeed on that id, and the same call      *)
(* sent again right after it fails with "Vault already retrieved".         *)
(* Refuted by the code: after retrieve, extend and destroy the flag is     *)
(* false again and a formerly permitted wallet retrieves a second time.    *)
(***************************************************************************)
C3_AtMostOneRetrieve ==
    [][\A id \in VaultIds, sender \in Users :
          (retrieveVaultStatus(sender, id) = "ok" /\ retrieveVault(sender, id))
              => /\ id \notin everRetrieved
                 /\ retrieveVaultStatus(sender, id)' = "Vault already retrieved"
      ]_vars

(***************************************************************************)
(* C4.  Every retrieveVault that succeeds meets all its preconditions when *)
(* it is called: the entry exists, the sender is its owner or is           *)
(* permitted, block.timestamp >= unlockTime, and retrieved is false.       *)
(* Refuted by the code: retrieveVault never checks that the entry exists.  *)
(***************************************************************************)
C4_RetrievePreconditions ==
    [][\A id \in VaultIds, sender \in Users :
          (retrieveVaultStatus(sender, id) = "ok" /\ retrieveVault(sender, id))
              => /\ Live(id)
                 /\ sender = vaults[id].owner \/ sender \in vaults[id].permitted
                 /\ blockTimestamp >= vaults[id].unlockTime
                 /\ ~vaults[id].retrieved]_vars

(***************************************************************************)
(* C5.  For every live entry that is not retrieved and whose unlock time   *)
(* has come, retrieveVault sent by its owner succeeds, sets retrieved and  *)
(* returns the cid the entry was created with; no step changes the cid or  *)
(* the owner of an entry that stays live.  (The steps that matter are      *)
(* those that change vaults.)                                              *)
(***************************************************************************)
OwnerCanRetrieve(id) ==
    (Live(id) /\ ~vaults[id].retrieved /\ blockTimestamp >= vaults[id].unlockTime)
        => /\ retrieveVaultStatus(vaults[id].owner, id) = "ok"
           /\ retrieveVaultReturn(id) = created[id]

C5_OwnerRetrievesCreatedCid ==
    /\ [](\A id \in VaultIds : OwnerCanRetrieve(id))
    /\ [][vaults' # vaults => \A id \in VaultIds :
             /\ (Live(id) /\ retrieveVaultStatus(vaults[id].owner, id) = "ok"
                     /\ retrieveVault(vaults[id].owner, id))
                    => vaults'[id].retrieved
             /\ (Live(id) /\ Live(id)')
                    => /\ vaults'[id].cid = vaults[id].cid
                       /\ vaults'[id].owner = vaults[id].owner]_vars

\* the owner has retrieved at the very unlock time; the cid is the created one
C5_Witness ==
    \E id \in VaultIds :
        /\ Live(id) /\ vaults[id].retrieved /\ id \in everRetrieved
        /\ vaults[id].permitted = {}
        /\ blockTimestamp = vaults[id].unlockTime
        /\ vaults[id].cid = "Qm2" /\ created[id] = "Qm2"

(***************************************************************************)
(* C6.  Ids are allocated monotonically and never reused: the first        *)
(* createVault that succeeds yields 1001, every one yields the previous id *)
(* plus one, greater than every id yielded before, an id is never yielded  *)
(* twice (destroyed or not), and only a successful createVault moves the   *)
(* counter.                                                                *)
(***************************************************************************)
C6_IdsMonotonicNoReuse ==
    /\ [](\A id \in VaultIds :
             Issued(id) <=> (InitialCounter < id /\ id <= vaultCounter))
    /\ [][vaults' # vaults =>
           \A sender \in Users, cid \in Cids, t \in UnlockTimes :
             (createVaultStatus(sender, cid, t) = "ok"
                  /\ createVault(sender, cid, t))
                 => /\ vaultCounter' = vaultCounter + 1
                    /\ (vaultCounter = InitialCounter => vaultCounter' = 1001)
                    /\ ~Issued(vaultCounter') /\ ~Live(vaultCounter')
                    /\ \A j \in VaultIds : Issued(j) => j < vaultCounter'
                    /\ vaults'[vaultCounter'].owner = sender
                    /\ created'[vaultCounter'] = cid]_vars
    /\ [][vaultCounter' # vaultCounter
             => \E sender \in Users, cid \in Cids, t \in UnlockTimes :
                    /\ createVaultStatus(sender, cid, t) = "ok"
                    /\ createVault(sender, cid, t)]_vars

\* a second id was yielded and the first one has been destroyed
C6_Witness ==
    /\ vaultCounter = InitialCounter + 2
    /\ Destroyed(InitialCounter + 1)
    /\ Live(InitialCounter + 2)

(***************************************************************************)
(* C7.  Invariant I1: every id in getVaultIds(p) is an entry that exists   *)
(* and whose owner is p, and no id is in the list twice.                   *)
(***************************************************************************)
C7_OwnerIndexConsistent ==
    \A p \in Addresses :
        LET ids == getVaultIds(p) IN
        /\ \A i \in 1..Len(ids) : Live(ids[i]) /\ vaults[ids[i]].owner = p
        /\ \A i, j \in 1..Len(ids) : ids[i] = ids[j] => i = j

\* the first of an owner's two ids was destroyed: the last was moved over it
C7_Witness ==
    \E p \in Users :
        /\ getVaultIds(p) = <<InitialCounter + 2>>
        /\ Destroyed(InitialCounter + 1)
        /\ \A q \in Users \ {p} : getVaultIds(q) = <<>>

(***************************************************************************)
(* C8.  Invariant I5: for every id, the wallets whose permitted flag is    *)
(* true are exactly the elements of getPermittedWallets(id).               *)
(* Refuted by the code: delete vaults[vaultId] empties the array and       *)
(* leaves the flags of the mapping set.                                    *)
(***************************************************************************)
C8_PermittedMatchesList ==
    \A id \in VaultIds :
        vaults[id].permitted = Range(getPermittedWallets(id))

(***************************************************************************)
(* C9.  The owner of an entry is never in the entry's permitted set nor    *)
(* in its permittedWallets list.                                           *)
(* Refuted by the code: permitWallet accepts the owner as the wallet.      *)
(***************************************************************************)
C9_OwnerNeverPermitted ==
    \A id \in VaultIds :
        Live(id) => /\ vaults[id].owner \notin vaults[id].permitted
                    /\ vaults[id].owner \notin Range(getPermittedWallets(id))

(***************************************************************************)
(* C10.  Invariant I2: the unlockTime of an entry that stays live never    *)
(* decreases; it changes only in a successful extendUnlockTime, which sets *)
(* it to its argument, strictly greater than the value before.             *)
(***************************************************************************)
C10_UnlockTimeOnlyIncreases ==
    [][vaults' # vaults =>
         /\ \A id \in VaultIds :
                (Live(id) /\ Live(id)')
                    => /\ vaults'[id].unlockTime >= vaults[id].unlockTime
                       /\ vaults'[id].unlockTime # vaults[id].unlockTime
                              => \E t \in UnlockTimes :
                                     /\ extendUnlockTimeStatus(vaults[id].owner, id, t) = "ok"
                                     /\ extendUnlockTime(vaults[id].owner, id, t)
                                     /\ t = vaults'[id].unlockTime
         /\ \A id \in VaultIds, sender \in Users, t \in UnlockTimes :
                (extendUnlockTimeStatus(sender, id, t) = "ok"
                     /\ extendUnlockTime(sender, id, t))
                    => /\ vaults'[id].unlockTime = t
                       /\ t > vaults[id].unlockTime]_vars

\* a retrieved entry is locked again: its unlock time was extended past now
C10_Witness ==
    \E id \in VaultIds :
        /\ Live(id) /\ vaults[id].retrieved
        /\ vaults[id].unlockTime > blockTimestamp

(***************************************************************************)
(* C11.  Every call is all-or-nothing: a createVault, retrieveVault,       *)
(* permitWallet, revokeWallet, extendUnlockTime or destroyVault that fails *)
(* a require leaves vaults, userVaults, vaultCounter and the event log as  *)
(* they were; a step that changes any of them is a call that succeeds.     *)
(***************************************************************************)
\* some call, with any arguments, that fails
FailingCall ==
    \/ \E sender \in Users, cid \in Cids, t \in UnlockTimes :
           createVaultStatus(sender, cid, t) # "ok" /\ createVault(sender, cid, t)
    \/ \E sender \in Users, id \in VaultIds :
           \/ retrieveVaultStatus(sender, id) # "ok" /\ retrieveVault(sender, id)
           \/ destroyVaultStatus(sender, id) # "ok" /\ destroyVault(sender, id)
           \/ \E wallet \in Addresses :
                  \/ /\ permitWalletStatus(sender, id, wallet) # "ok"
                     /\ permitWallet(sender, id, wallet)
                  \/ /\ revokeWalletStatus(sender, id, wallet) # "ok"
                     /\ revokeWallet(sender, id, wallet)
           \/ \E t \in UnlockTimes :
                  /\ extendUnlockTimeStatus(sender, id, t) # "ok"
                  /\ extendUnlockTime(sender, id, t)

\* some call, with any arguments, that succeeds
SucceedingCall ==
    \/ \E sender \in Users, cid \in Cids, t \in UnlockTimes :
           createVaultStatus(sender, cid, t) = "ok" /\ createVault(sender, cid, t)
    \/ \E sender \in Users, id \in VaultIds :
           \/ retrieveVaultStatus(sender, id) = "ok" /\ retrieveVault(sender, id)
           \/ destroyVaultStatus(sender, id) = "ok" /\ destroyVault(sender, id)
           \/ \E wallet \in Addresses :
                  \/ /\ permitWalletStatus(sender, id, wallet) = "ok"
                     /\ permitWallet(sender, id, wallet)
                  \/ /\ revokeWalletStatus(sender, id, wallet) = "ok"
                     /\ revokeWallet(sender, id, wallet)
           \/ \E t \in UnlockTimes :
                  /\ extendUnlockTimeStatus(sender, id, t) = "ok"
                  /\ extendUnlockTime(sender, id, t)

C11_FailedCallChangesNothing ==
    [][/\ FailingCall => UNCHANGED <<storage, log>>
       /\ (storage' # storage \/ log' # log) => SucceedingCall]_vars

\* one entry exists and, in this state, each of the six functions has a
\* call that fails
C11_Witness ==
    /\ subscribed /\ Len(log) = 1
    /\ \E id \in VaultIds, sender \in Users :
          /\ Live(id)
          /\ createVaultStatus(sender, "", blockTimestamp + 1) # "ok"
          /\ retrieveVaultStatus(vaults[id].owner, id) = "Vault still locked"
          /\ permitWalletStatus(vaults[id].owner, id, ZeroAddress)
                 = "Invalid address"
          /\ revokeWalletStatus(vaults[id].owner, id, sender)
                 = "Wallet not permitted"
          /\ extendUnlockTimeStatus(vaults[id].owner, id, blockTimestamp)
                 = "Unlock time must be in the future"
          /\ destroyVaultStatus(sender, id) = "Only owner can execute"

(***************************************************************************)
(* C12.  Each successful call emits exactly one event, of the kind of the  *)
(* function called and carrying the id it acted on: the event log is, call *)
(* for call and in call order, the sequence of the calls that returned.    *)
(***************************************************************************)
\* the event each function declares it emits
EventOf(op) ==
    CASE op = "createVault"      -> "VaultCreated"
      [] op = "retrieveVault"    -> "VaultRetrieved"
      [] op = "permitWallet"     -> "WalletPermitted"
      [] op = "revokeWallet"     -> "WalletRevoked"
      [] op = "extendUnlockTime" -> "UnlockTimeExtended"
      [] op = "destroyVault"     -> "VaultDestroyed"

LogMatchesCalls ==
    /\ Len(log) = Len(calls)
    /\ \A i \in 1..Len(log) :
          /\ log[i].kind = EventOf(calls[i].op)
          /\ log[i].vaultId = calls[i].vaultId

C12_OneEventPerSuccessfulCall ==
    /\ [](subscribed => LogMatchesCalls)
    /\ [][calls' # calls =>
             /\ Len(log') = Len(log) + 1
             /\ SubSeq(log', 1, Len(log)) = log]_vars

\* four calls of four different functions have returned, the last one a
\* destroyVault
C12_Witness ==
    /\ Len(log) = MaxLog
    /\ log[1].kind = "VaultCreated"
    /\ log[2].kind = "WalletPermitted"
    /\ log[3].kind = "UnlockTimeExtended"
    /\ log[4].kind = "VaultDestroyed"
    /\ log[4].vaultId = log[1].vaultId

(***************************************************************************)
(* C13.  An entry is destroyed only while it has always been locked: once  *)
(* block.timestamp >= unlockTime has held for a live entry, no later step  *)
(* removes the entry.                                                      *)
(***************************************************************************)
C13_UnlockableNeverDestroyed ==
    [][\A id \in VaultIds : (id \in everOpen /\ Live(id)) => Live(id)']_vars

(***************************************************************************)
(* C14.  permitWallet, revokeWallet, extendUnlockTime and destroyVault are *)
(* for the owner only: sent by anyone else - a permitted wallet, or anyone *)
(* on an id without entry - they fail with "Only owner can execute" and    *)
(* change nothing; a step that changes a live entry's permitted wallets or *)
(* unlockTime, or removes the entry, is one of these calls by its owner.   *)
(***************************************************************************)
OnlyOwnerPasses(sender, id) ==
    sender # vaults[id].owner =>
        /\ \A wallet \in Addresses :
              /\ permitWalletStatus(sender, id, wallet) = "Only owner can execute"
              /\ revokeWalletStatus(sender, id, wallet) = "Only owner can execute"
        /\ \A t \in UnlockTimes :
              extendUnlockTimeStatus(sender, id, t) = "Only owner can execute"
        /\ destroyVaultStatus(sender, id) = "Only owner can execute"

\* one of the four owner-only calls on id, sent by sender
OwnerOnlyCall(sender, id) ==
    \/ destroyVault(sender, id)
    \/ \E wallet \in Addresses : permitWallet(sender, id, wallet)
    \/ \E wallet \in Addresses : revokeWallet(sender, id, wallet)
    \/ \E t \in UnlockTimes : extendUnlockTime(sender, id, t)

C14_OwnerOnly ==
    /\ [](\A sender \in Users, id \in VaultIds : OnlyOwnerPasses(sender, id))
    /\ [][vaults' # vaults =>
             \A id \in VaultIds :
                 /\ \A sender \in Users \ {vaults[id].owner} :
                        OwnerOnlyCall(sender, id) => UNCHANGED vars
                 /\ (/\ Live(id)
                     /\ \/ vaults'[id].permitted # vaults[id].permitted
                        \/ vaults'[id].permittedWallets # vaults[id].permittedWallets
                        \/ vaults'[id].unlockTime # vaults[id].unlockTime
                        \/ ~Live(id)')
                    => OwnerOnlyCall(vaults[id].owner, id)]_vars

\* a locked live entry with a permitted wallet that is not its owner, next
\* to an id that has no entry
C14_Witness ==
    \E id \in VaultIds, wallet \in Users :
        /\ Live(id) /\ wallet # vaults[id].owner
        /\ vaults[id].permittedWallets = <<wallet>>
        /\ blockTimestamp < vaults[id].unlockTime
        /\ destroyVaultStatus(wallet, id) = "Only owner can execute"
        /\ \E other \in VaultIds :
              /\ ~Issued(other)
              /\ permitWalletStatus(wallet, other, wallet) = "Only owner can execute"

(***************************************************************************)
(* C15.  createVault succeeds exactly when the cid is not empty and        *)
(* now < unlockTime <= now + 3650 days: unlockTime = now fails, now + 3650 *)
(* days succeeds, one second more fails.  A successful createVault makes   *)
(* the entry of the new id: owner the sender, the cid and unlockTime       *)
(* given, retrieved false, no permitted wallet; and appends the id to the  *)
(* sender's list.                                                          *)
(***************************************************************************)
CreateSucceedsExactlyWhen ==
    /\ MAX_UNLOCK_PERIOD = 3650 * 24 * 60 * 60
    /\ \A sender \in Users, cid \in Cids, t \in UnlockTimes :
          createVaultStatus(sender, cid, t) = "ok"
              <=> /\ cid # ""
                  /\ blockTimestamp < t
                  /\ t <= blockTimestamp + MAX_UNLOCK_PERIOD
    /\ \A sender \in Users, cid \in Cids \ {""} :
          /\ createVaultStatus(sender, cid, blockTimestamp) # "ok"
          /\ createVaultStatus(sender, cid, blockTimestamp + MAX_UNLOCK_PERIOD)
                 = "ok"
          /\ createVaultStatus(sender, cid, blockTimestamp + MAX_UNLOCK_PERIOD + 1)
                 # "ok"

C15_CreateVault ==
    /\ []CreateSucceedsExactlyWhen
    /\ [][vaultCounter' # vaultCounter =>
             \E sender \in Users, cid \in Cids, t \in UnlockTimes :
                 /\ createVaultStatus(sender, cid, t) = "ok"
                 /\ createVault(sender, cid, t)
                 /\ vaults'[vaultCounter'] =
                        [owner |-> sender, cid |-> cid, unlockTime |-> t,
                         retrieved |-> FALSE, permitted |-> {},
                         permittedWallets |-> <<>>]
                 /\ getVaultIds(sender)' = Append(getVaultIds(sender), vaultCounter')
                 /\ \A id \in VaultIds \ {vaultCounter'} : vaults'[id] = vaults[id]
                 /\ \A p \in Users \ {sender} : getVaultIds(p)' = getVaultIds(p)]_vars

\* an entry just created with its unlock time at the horizon, second in its
\* owner's list
C15_Witness ==
    \E id \in VaultIds :
        /\ Live(id)
        /\ vaults[id].unlockTime = blockTimestamp + MAX_UNLOCK_PERIOD
        /\ Len(getVaultIds(vaults[id].owner)) = 2
        /\ getVaultIds(vaults[id].owner)[2] = id

(***************************************************************************)
(* C16.  For every entry and every wallet its owner can permit, permitting *)
(* the wallet and then revoking it succeeds and leaves the permitted       *)
(* wallets, as a set, and every other field of the entry as they were      *)
(* before the permitWallet.                                                *)
(***************************************************************************)
PermitThenRevoke(id, wallet) ==
    LET v        == vaults[id]
        permit   == permitWalletEffect(v, wallet)
        revoke   == revokeWalletEffect(permit, wallet)
    IN  (Live(id) /\ permitWalletStatus(v.owner, id, wallet) = "ok") =>
            \* the revokeWallet passes its require
            /\ wallet \in permit.permitted
            /\ permit.owner = v.owner
            /\ Range(revoke.permittedWallets) = Range(v.permittedWallets)
            /\ Len(revoke.permittedWallets) = Len(v.permittedWallets)
            /\ [revoke EXCEPT !.permittedWallets = v.permittedWallets] = v

C16_PermitThenRevokeRestores ==
    /\ [](\A id \in VaultIds, wallet \in Addresses : PermitThenRevoke(id, wallet))
    /\ [][calls' # calls /\ Len(calls) > 0 =>
             LET last == calls[Len(calls)]
                 this == calls'[Len(calls')]
                 prev == log[Len(log)]
                 now  == log'[Len(log')]
             IN  (/\ last.op = "permitWallet" /\ this.op = "revokeWallet"
                  /\ last.vaultId = this.vaultId /\ prev.who = now.who)
                 => /\ vaults'[this.vaultId].permitted
                           = vaults[this.vaultId].permitted \ {now.who}
                    /\ Range(vaults'[this.vaultId].permittedWallets)
                           = Range(vaults[this.vaultId].permittedWallets) \ {now.who}
                    /\ vaults[this.vaultId].permittedWallets
                           = Append(vaults'[this.vaultId].permittedWallets, now.who)
                    /\ [vaults'[this.vaultId] EXCEPT
                            !.permitted = {}, !.permittedWallets = <<>>]
                           = [vaults[this.vaultId] EXCEPT
                                  !.permitted = {}, !.permittedWallets = <<>>]]_vars

\* a wallet has just been permitted and revoked again on an entry that has
\* another permitted wallet
C16_Witness ==
    /\ Len(calls) = MaxLog
    /\ calls[MaxLog - 1].op = "permitWallet" /\ calls[MaxLog].op = "revokeWallet"
    /\ calls[MaxLog - 1].vaultId = calls[MaxLog].vaultId
    /\ log[MaxLog - 1].who = log[MaxLog].who
    /\ Len(vaults[calls[MaxLog].vaultId].permittedWallets) = 1
    /\ log[MaxLog].who \notin vaults[calls[MaxLog].vaultId].permitted

(***************************************************************************)
(* C17.  A successful destroyVault removes exactly its id from the owner's *)
(* list: afterwards getVaultIds(owner) holds, as a set, the ids it held    *)
(* before except that one; the lists of all other accounts and all other   *)
(* entries are unchanged.                                                  *)
(***************************************************************************)
DestroyFrame(id) ==
    \E owner \in Users :
    /\ owner = vaults[id].owner
    /\ destroyVaultStatus(owner, id) = "ok"
    /\ destroyVault(owner, id)
    /\ id \in Range(getVaultIds(owner))
    /\ Range(getVaultIds(owner)') = Range(getVaultIds(owner)) \ {id}
    /\ Len(getVaultIds(owner)') = Len(getVaultIds(owner)) - 1
    /\ \A p \in Addresses \ {owner} : getVaultIds(p)' = getVaultIds(p)
    /\ \A other \in VaultIds \ {id} : vaults'[other] = vaults[other]

C17_DestroyRemovesOnlyItsId ==
    [][vaults' # vaults =>
          \A id \in VaultIds : (Live(id) /\ ~Live(id)') => DestroyFrame(id)]_vars

\* the second of two entries of one owner has been destroyed, the first is
\* still in the owner's list
C17_Witness ==
    \E p \in Users :
        /\ Destroyed(InitialCounter + 2)
        /\ Live(InitialCounter + 1) /\ vaults[InitialCounter + 1].owner = p
        /\ created[InitialCounter + 2] # "" /\ getVaultIds(p) = <<InitialCounter + 1>>
        /\ vaults[InitialCounter + 1].permittedWallets # <<>>

(***************************************************************************)
(* C18.  The view functions have no require and write nothing.  For a live *)
(* entry isVaultOpen is false while block.timestamp < unlockTime and true  *)
(* from block.timestamp = unlockTime on, and getVaultStatus agrees.        *)
(***************************************************************************)
OpenFromUnlockTime(id) ==
    /\ blockTimestamp < vaults[id].unlockTime => ~isVaultOpen(id)
    /\ blockTimestamp >= vaults[id].unlockTime => isVaultOpen(id)
    /\ getVaultStatus(id).isOpen = isVaultOpen(id)
    /\ getVaultStatus(id).unlockTime = vaults[id].unlockTime

\* As claimed: for an id that was never created or has been destroyed the
\* views return isOpen = false and unlockTime = 0.
C18_MissingIdIsClosed ==
    \A id \in VaultIds :
        /\ Live(id) => OpenFromUnlockTime(id)
        /\ ~Live(id) =>
              /\ isVaultOpen(id) = FALSE
              /\ getVaultStatus(id) = [isOpen |-> FALSE, unlockTime |-> 0]

\* As the code has it: for an id that was never created or has been
\* destroyed the views return unlockTime = 0 and isOpen = true, and no
\* permitted wallet.
C18_MissingIdIsOpen ==
    \A id \in VaultIds :
        /\ Live(id) => OpenFromUnlockTime(id)
        /\ ~Live(id) =>
              /\ isVaultOpen(id) = TRUE
              /\ getVaultStatus(id) = [isOpen |-> TRUE, unlockTime |-> 0]
              /\ getPermittedWallets(id) = <<>>

\* a destroyed id, a never created id and a live entry at its unlock time
C18_Witness ==
    /\ Destroyed(InitialCounter + 1) /\ isVaultOpen(InitialCounter + 1)
    /\ ~Issued(InitialCounter) /\ isVaultOpen(InitialCounter)
    /\ Live(InitialCounter + 2)
    /\ blockTimestamp = vaults[InitialCounter + 2].unlockTime
    /\ getVaultStatus(InitialCounter + 2).isOpen

(***************************************************************************)
(* C19.  retrieveVault reports its failures in a fixed order: "Access      *)
(* denied" for a sender that is neither owner nor permitted, whatever the  *)
(* time and the retrieved flag; "Vault still locked" for an authorized     *)
(* sender before the unlock time, retrieved or not; "Vault already         *)
(* retrieved" only for an authorized sender from the unlock time on.       *)
(* revokeWallet succeeds after a retrieval, so after permitWallet of B,    *)
(* retrieveVault by B and revokeWallet of B, B gets "Access denied".       *)
(***************************************************************************)
RetrievePrecedence(sender, id) ==
    LET v          == vaults[id]
        authorized == sender = v.owner \/ sender \in v.permitted
        status     == retrieveVaultStatus(sender, id)
    IN  /\ ~authorized => status = "Access denied"
        /\ (authorized /\ blockTimestamp < v.unlockTime)
               => status = "Vault still locked"
        /\ (authorized /\ blockTimestamp >= v.unlockTime /\ v.retrieved)
               => status = "Vault already retrieved"
        /\ (Live(id) /\ v.retrieved) =>
               \A wallet \in v.permitted :
                   revokeWalletStatus(v.owner, id, wallet) = "ok"

\* the last three calls that returned are permitWallet of a wallet other
\* than the owner, retrieveVault sent by that wallet, and revokeWallet of it,
\* all on id
PermitRetrieveRevoke(id, wallet) ==
    LET n == Len(calls) IN
    /\ n >= 3
    /\ wallet # vaults[id].owner
    /\ calls[n - 2].op = "permitWallet" /\ calls[n - 2].vaultId = id
    /\ log[n - 2].who = wallet
    /\ calls[n - 1].op = "retrieveVault" /\ calls[n - 1].vaultId = id
    /\ calls[n - 1].sender = wallet
    /\ calls[n].op = "revokeWallet" /\ calls[n].vaultId = id
    /\ log[n].who = wallet

C19_RetrieveFailurePrecedence ==
    \A id \in VaultIds, sender \in Users :
        /\ RetrievePrecedence(sender, id)
        /\ PermitRetrieveRevoke(id, sender) =>
               /\ vaults[id].retrieved
               /\ retrieveVaultStatus(sender, id) = "Access denied"

\* the scenario has run: the wallet was permitted, retrieved the vault and
\* was revoked
C19_Witness ==
    \E id \in VaultIds, wallet \in Users :
        /\ PermitRetrieveRevoke(id, wallet)
        /\ Live(id) /\ vaults[id].retrieved /\ id \in everRetrieved
        /\ blockTimestamp >= vaults[id].unlockTime
        /\ retrieveVaultStatus(vaults[id].owner, id) = "Vault already retrieved"

(***************************************************************************)
(* C20.  In every reachable state getPermittedWallets(id) holds no wallet  *)
(* twice and never address(0); a successful revokeWallet therefore removes *)
(* the wallet from the array altogether and shortens it by exactly one.    *)
(***************************************************************************)
NoDuplicateNoZero(s) ==
    /\ \A i, j \in 1..Len(s) : s[i] = s[j] => i = j
    /\ ZeroAddress \notin Range(s)

C20_PermittedWalletsDistinct ==
    /\ [](\A id \in VaultIds : NoDuplicateNoZero(getPermittedWallets(id)))
    /\ [][(calls' # calls /\ calls'[Len(calls')].op = "revokeWallet") =>
             \E id \in VaultIds, wallet \in Users :
                 /\ revokeWalletStatus(vaults[id].owner, id, wallet) = "ok"
                 /\ revokeWallet(vaults[id].owner, id, wallet)
                 /\ wallet \in Range(getPermittedWallets(id))
                 /\ wallet \notin Range(vaults'[id].permittedWallets)
                 /\ Len(vaults'[id].permittedWallets)
                        = Len(getPermittedWallets(id)) - 1
                 /\ Range(vaults'[id].permittedWallets)
                        = Range(getPermittedWallets(id)) \ {wallet}]_vars

\* the first of two permitted wallets has just been revoked: the second one
\* has taken its place
C20_Witness ==
    /\ Len(calls) = MaxLog
    /\ calls[2].op = "permitWallet" /\ calls[3].op = "permitWallet"
    /\ calls[MaxLog].op = "revokeWallet"
    /\ log[MaxLog].who = log[2].who
    /\ \A i \in 2..MaxLog : calls[i].vaultId = calls[1].vaultId
    /\ getPermittedWallets(calls[1].vaultId) = <<log[3].who>>

====
